---- MODULE Spec2Model ----
(***************************************************************************)
(* A model of screen_on_time.py: the backward boundary scan, the forward   *)
(* display-interval walk, the open-ended tail and the report of            *)
(* process_lines, and the nearest-timestamp lookup get_closest_event.      *)
(*                                                                         *)
(* A log line is kept as what the two regular expressions extract from it: *)
(*   ts      the timestamp, in seconds                                     *)
(*   ctype   the power source of a charge match ("AC", "Batt", "BATT"),    *)
(*           or "none" when charge_regex does not match the line; the code *)
(*           only asks whether it is "AC"                                  *)
(*   charge  the charge percentage of a charge match                       *)
(*   dstate  the state of a display match, or "none" when display_regex    *)
(*           does not match the line                                       *)
(* Timestamps are whole seconds, as in the log; datetime.now() is taken    *)
(* with whole seconds too.                                                 *)
(***************************************************************************)
EXTENDS Integers, Sequences, FiniteSets, TLC

\* ------------------------------------------------------------------ bounds
MaxLen == 3            \* lines read one by one, after the initial log
MaxEvents == 3         \* longest event list handed to the lookup on its own

\* ------------------------------------------------------- program constants
PrintThreshold == 300  \* "if duration > 300"
GapThreshold == 600    \* "if min(delta_to_after, delta_to_before) > 600"

\* ------------------------------------------------------------ input values
Times == {0, 300, 601}
Charges == {60, 80}
ChargeTypes == {"AC", "Batt"}
DisplayStates == {"on", "off", "sleep"}
NowTimes == {601, 7800}
LiveCharges == {55, 60}
LookupTimes == {0, 300, 600, 901, 1502}

VARIABLES
    pc,                 \* position in main / process_lines
    pmset_lines,        \* the log
    i,                  \* enumerate index of the backward scan
    seen_batt, start_index, end_index, start_charge, start_timestamp,
    start_display_state,
    charge_events,
    k,                  \* position of the forward walk in pmset_lines
    current_display_state, last_display_switch,
    total_time_with_display_on, total_time_with_display_off,
    total_consumption_with_display_on, total_consumption_with_display_off,
    output,             \* everything printed, in order
    exit_status,        \* -1 while running
    live_calls,         \* number of calls of get_current_charge
    now,                \* datetime.now() of the tail, NoValue before
    current_charge,     \* what get_current_charge returned, NoValue before
    events, timestamp, result   \* a stand-alone call of get_closest_event

vars == <<pc, pmset_lines, i, seen_batt, start_index, end_index, start_charge,
          start_timestamp, start_display_state, charge_events, k,
          current_display_state, last_display_switch,
          total_time_with_display_on, total_time_with_display_off,
          total_consumption_with_display_on, total_consumption_with_display_off,
          output, exit_status, live_calls, now, current_charge,
          events, timestamp, result>>

None == "none"
NoValue == -1

\* ------------------------------------------------------------------- lines
OtherLine == [ts |-> 0, ctype |-> None, charge |-> 0, dstate |-> None]
ChargeLine(t, ty, c) == [ts |-> t, ctype |-> ty, charge |-> c, dstate |-> None]
DisplayLine(t, s) == [ts |-> t, ctype |-> None, charge |-> 0, dstate |-> s]
\* a line that both patterns match
BothLine(t, ty, c, s) == [ts |-> t, ctype |-> ty, charge |-> c, dstate |-> s]

charge_regex(line) == line.ctype # None
display_regex(line) == line.dstate # None

\* Python's pmset_lines[p], p counted from 0
LineAt(p) == pmset_lines[p + 1]

Min(a, b) == IF a < b THEN a ELSE b

\* Python's int(a / b) for a whole a and positive b: truncation toward zero
IntTrunc(a, b) == IF a >= 0 THEN a \div b ELSE -((-a) \div b)

\* ------------------------------------------------------------------ output
Printed(stream, kind) ==
    [stream |-> stream, kind |-> kind, from |-> 0, to |-> 0, consumption |-> 0,
     hours |-> 0, minutes |-> 0, label |-> "", num |-> 0, den |-> 1]

GapWarning(delta) ==
    [Printed("stdout", "gap") EXCEPT !.minutes = delta \div 60]

IntervalLine(kind, from, to, consumption, duration, label) ==
    [Printed("stdout", kind) EXCEPT
        !.from = from, !.to = to, !.consumption = consumption,
        !.hours = IntTrunc(duration, 3600),
        !.minutes = IntTrunc(duration % 3600, 60),
        !.label = label]

TotalLine(kind, consumption, time) ==
    [Printed("stdout", kind) EXCEPT
        !.consumption = consumption,
        !.hours = IntTrunc(time, 3600),
        !.minutes = IntTrunc(time % 3600, 60)]

\* RateLine without the guard "if total_time > 0"
RateLine_unguarded(kind, consumption, time) ==
    [Printed("stdout", kind) EXCEPT !.num = consumption * 3600, !.den = time]

\* a rate is kept as the exact fraction num / den (percent per hour)
RateLine(kind, consumption, time) ==
    IF time > 0
    THEN [Printed("stdout", kind) EXCEPT !.num = consumption * 3600, !.den = time]
    ELSE [Printed("stdout", kind) EXCEPT !.num = 0, !.den = 1]

\* -------------------------------------------------------- get_closest_event
RECURSIVE bisect_search(_, _, _, _)
bisect_search(a, x, lo, hi) ==
    IF lo < hi
    THEN LET mid == (lo + hi) \div 2
         IN  IF a[mid + 1] < x
             THEN bisect_search(a, x, mid + 1, hi)
             ELSE bisect_search(a, x, lo, mid)
    ELSE lo

bisect_left(a, x) == bisect_search(a, x, 0, Len(a))

NoEvent == <<NoValue, NoValue>>
NoResult == [raised |-> FALSE, event |-> NoEvent, printed |-> <<>>]

\* get_closest_event with the comparison "<=": an exact tie goes to before
get_closest_event_tie_before(evs, t) ==
    LET timestamps_of_events == [e \in 1..Len(evs) |-> evs[e][1]]
        pos == bisect_left(timestamps_of_events, t)
    IN  IF Len(evs) = 0
        THEN [raised |-> TRUE, event |-> NoEvent, printed |-> <<>>]
        ELSE IF pos = 0
        THEN [raised |-> FALSE, event |-> evs[1], printed |-> <<>>]
        ELSE IF pos = Len(evs)
        THEN [raised |-> FALSE, event |-> evs[Len(evs)], printed |-> <<>>]
        ELSE LET before == evs[pos]
                 after == evs[pos + 1]
                 delta_to_before == t - before[1]
                 delta_to_after == after[1] - t
                 nearest == Min(delta_to_after, delta_to_before)
             IN  [raised |-> FALSE,
                  event |-> IF delta_to_before <= delta_to_after
                            THEN before ELSE after,
                  printed |-> IF nearest > GapThreshold
                              THEN <<GapWarning(nearest)>> ELSE <<>>]

\* the event returned, what the call printed, and whether it raised
\* (events[0] of an empty list is an IndexError)
get_closest_event(evs, t) ==
    LET timestamps_of_events == [e \in 1..Len(evs) |-> evs[e][1]]
        pos == bisect_left(timestamps_of_events, t)
    IN  IF Len(evs) = 0
        THEN [raised |-> TRUE, event |-> NoEvent, printed |-> <<>>]
        ELSE IF pos = 0
        THEN [raised |-> FALSE, event |-> evs[1], printed |-> <<>>]
        ELSE IF pos = Len(evs)
        THEN [raised |-> FALSE, event |-> evs[Len(evs)], printed |-> <<>>]
        ELSE LET before == evs[pos]
                 after == evs[pos + 1]
                 delta_to_before == t - before[1]
                 delta_to_after == after[1] - t
                 nearest == Min(delta_to_after, delta_to_before)
             IN  [raised |-> FALSE,
                  event |-> IF delta_to_before < delta_to_after
                            THEN before ELSE after,
                  printed |-> IF nearest > GapThreshold
                              THEN <<GapWarning(nearest)>> ELSE <<>>]

\* -------------------------------------------------------------------- logs
\* a display state established earlier, then a plug-in and the unplug
SessionHeader ==
    << DisplayLine(0, "on"), ChargeLine(0, "AC", 80), ChargeLine(0, "Batt", 80) >>

\* unplug at 10:00:00 with 80%, display on established earlier; display off
\* at 10:10:00 (78%); display on at 12:10:00 (60%); the log ends there.
\* Seconds are counted from 10:00:00.
EndToEndLog ==
    SessionHeader \o
    << DisplayLine(600, "off"), ChargeLine(600, "Batt", 78),
       DisplayLine(7800, "on"), ChargeLine(7800, "Batt", 60) >>

\* a plug-in, then an unplug line that is a display line as well
BothLineHeader ==
    << ChargeLine(0, "AC", 60), BothLine(0, "BATT", 60, "on") >>

\* the logs the reading starts from: nothing, a session just begun (in two
\* forms), and the end-to-end log
InitialLogs == { <<>>, SessionHeader, BothLineHeader, EndToEndLog }

IsPrefix(p, s) == Len(p) <= Len(s) /\ SubSeq(s, 1, Len(p)) = p

\* the longest log read: MaxLen lines, after the header if there is one
MaxLines(lines) ==
    IF IsPrefix(SessionHeader, lines) THEN Len(SessionHeader) + MaxLen
    ELSE IF IsPrefix(BothLineHeader, lines) THEN Len(BothLineHeader) + MaxLen
    ELSE MaxLen

\* -------------------------------------------------------------------- Init
Start ==
    /\ i = 0
    /\ seen_batt = FALSE
    /\ start_index = NoValue
    /\ end_index = NoValue
    /\ start_charge = NoValue
    /\ start_timestamp = NoValue
    /\ start_display_state = None
    /\ charge_events = <<>>
    /\ k = NoValue
    /\ current_display_state = None
    /\ last_display_switch = NoValue
    /\ total_time_with_display_on = 0
    /\ total_time_with_display_off = 0
    /\ total_consumption_with_display_on = 0
    /\ total_consumption_with_display_off = 0
    /\ output = <<>>
    /\ exit_status = NoValue
    /\ live_calls = 0
    /\ now = NoValue
    /\ current_charge = NoValue
    /\ events = <<>>
    /\ timestamp = NoValue
    /\ result = NoResult

Init ==
    /\ pc = "main"
    /\ pmset_lines \in InitialLogs
    /\ Start

liveVars == <<live_calls, now, current_charge>>
lookupVars == <<events, timestamp, result>>
scanVars == <<i, seen_batt, start_index, end_index, start_charge, start_timestamp>>
walkVars == <<k, current_display_state, last_display_switch,
              total_time_with_display_on, total_time_with_display_off,
              total_consumption_with_display_on,
              total_consumption_with_display_off>>

\* sys.exit(status) after printing msgs
Exit(msgs, status) ==
    /\ output' = output \o msgs
    /\ exit_status' = status
    /\ pc' = "exit"

\* -------------------------------------------------------------------- main
\* more than one argument: usage on standard error, exit status 2
MainUsage ==
    /\ pc = "main"
    /\ Exit(<<Printed("stderr", "usage")>>, 2)
    /\ UNCHANGED <<pmset_lines, scanVars, start_display_state, charge_events,
                   walkVars, liveVars, lookupVars>>

\* no argument or one: the log is read, from pmset or from the file
MainRead ==
    /\ pc = "main"
    /\ pc' = "read"
    /\ UNCHANGED <<pmset_lines, scanVars, start_display_state, charge_events,
                   walkVars, output, exit_status, liveVars, lookupVars>>

\* the latest timestamp among the lines that carry one
LastTs(lines) ==
    LET S == {lines[n].ts : n \in {m \in 1..Len(lines) :
                                     charge_regex(lines[m]) \/ display_regex(lines[m])}}
    IN  IF S = {} THEN 0 ELSE CHOOSE t \in S : \A u \in S : u <= t

LogLines ==
    {OtherLine}
    \cup {ChargeLine(t, ty, c) : t \in Times, ty \in ChargeTypes, c \in Charges}
    \cup {DisplayLine(t, s) : t \in Times, s \in DisplayStates}

\* one more line of the log; the log is chronological
ReadLine ==
    /\ pc = "read"
    /\ Len(pmset_lines) < MaxLines(pmset_lines)
    /\ \E line \in LogLines :
          /\ (charge_regex(line) \/ display_regex(line)) => line.ts >= LastTs(pmset_lines)
          /\ pmset_lines' = Append(pmset_lines, line)
    /\ UNCHANGED <<pc, scanVars, start_display_state, charge_events,
                   walkVars, output, exit_status, liveVars, lookupVars>>

\* process_lines(pmset_lines) is entered
ProcessLines ==
    /\ pc = "read"
    /\ pc' = "scan"
    /\ seen_batt' = FALSE
    /\ end_index' = Len(pmset_lines)
    /\ i' = 0
    /\ UNCHANGED <<pmset_lines, start_index, start_charge, start_timestamp,
                   start_display_state, charge_events, walkVars, output,
                   exit_status, liveVars, lookupVars>>

\* ------------------------------------------------- the backward boundary scan
\* the line the scan looks at: reversed(pmset_lines)[i]
ScanLine == LineAt(Len(pmset_lines) - i - 1)

\* a line that is no charge line
ScanNoMatch ==
    /\ pc = "scan"
    /\ i < Len(pmset_lines)
    /\ ~charge_regex(ScanLine)
    /\ i' = i + 1
    /\ UNCHANGED <<pc, pmset_lines, seen_batt, start_index, end_index,
                   start_charge, start_timestamp, start_display_state,
                   charge_events, walkVars, output, exit_status, liveVars,
                   lookupVars>>

\* ScanTrailingAC that keeps the first end_index it sets (the last AC line)
ScanTrailingAC_keepLast ==
    /\ pc = "scan"
    /\ i < Len(pmset_lines)
    /\ charge_regex(ScanLine)
    /\ ~seen_batt /\ ScanLine.ctype = "AC"
    /\ end_index' = IF end_index = Len(pmset_lines)
                    THEN Len(pmset_lines) - i - 1 ELSE end_index
    /\ i' = i + 1
    /\ UNCHANGED <<pc, pmset_lines, seen_batt, start_index,
                   start_charge, start_timestamp, start_display_state,
                   charge_events, walkVars, output, exit_status, liveVars,
                   lookupVars>>

\* an AC line before any battery line is seen: the report ends here
ScanTrailingAC ==
    /\ pc = "scan"
    /\ i < Len(pmset_lines)
    /\ charge_regex(ScanLine)
    /\ ~seen_batt /\ ScanLine.ctype = "AC"
    /\ end_index' = Len(pmset_lines) - i - 1
    /\ i' = i + 1
    /\ UNCHANGED <<pc, pmset_lines, seen_batt, start_index,
                   start_charge, start_timestamp, start_display_state,
                   charge_events, walkVars, output, exit_status, liveVars,
                   lookupVars>>

\* ScanBreak without "seen_batt and": any AC line ends the scan
ScanBreak_anyAC ==
    /\ pc = "scan"
    /\ i < Len(pmset_lines)
    /\ charge_regex(ScanLine)
    /\ ScanLine.ctype = "AC"
    /\ pc' = "display"
    /\ UNCHANGED <<pmset_lines, scanVars, start_display_state,
                   charge_events, walkVars, output, exit_status, liveVars,
                   lookupVars>>

\* an AC line after battery lines were seen: break
ScanBreak ==
    /\ pc = "scan"
    /\ i < Len(pmset_lines)
    /\ charge_regex(ScanLine)
    /\ seen_batt /\ ScanLine.ctype = "AC"
    /\ pc' = "display"
    /\ UNCHANGED <<pmset_lines, scanVars, start_display_state,
                   charge_events, walkVars, output, exit_status, liveVars,
                   lookupVars>>

\* ScanBattery that keeps the first battery line the scan meets
ScanBattery_keepFirst ==
    /\ pc = "scan"
    /\ i < Len(pmset_lines)
    /\ charge_regex(ScanLine)
    /\ ScanLine.ctype # "AC"
    /\ IF seen_batt
       THEN UNCHANGED <<start_index, start_charge, start_timestamp>>
       ELSE /\ start_index' = Len(pmset_lines) - i
            /\ start_charge' = ScanLine.charge
            /\ start_timestamp' = ScanLine.ts
    /\ seen_batt' = TRUE
    /\ i' = i + 1
    /\ UNCHANGED <<pc, pmset_lines, end_index, start_display_state,
                   charge_events, walkVars, output, exit_status, liveVars,
                   lookupVars>>

\* a battery line: the candidate for the session start
ScanBattery ==
    /\ pc = "scan"
    /\ i < Len(pmset_lines)
    /\ charge_regex(ScanLine)
    /\ ScanLine.ctype # "AC"
    /\ start_index' = Len(pmset_lines) - i
    /\ start_charge' = ScanLine.charge
    /\ start_timestamp' = ScanLine.ts
    /\ seen_batt' = TRUE
    /\ i' = i + 1
    /\ UNCHANGED <<pc, pmset_lines, end_index, start_display_state,
                   charge_events, walkVars, output, exit_status, liveVars,
                   lookupVars>>

\* the loop ends without break: the else branch of the for
ScanExhausted ==
    /\ pc = "scan"
    /\ i = Len(pmset_lines)
    /\ Exit(<<Printed("stdout", "no_unplug")>>, 1)
    /\ UNCHANGED <<pmset_lines, scanVars, start_display_state, charge_events,
                   walkVars, liveVars, lookupVars>>

\* ------------------------------------------ the display state at the unplug
\* DisplayBefore over the whole log, not only pmset_lines[:start_index]
DisplayBefore_wholeLog ==
    {p \in 0..(Len(pmset_lines) - 1) : display_regex(LineAt(p))}

\* positions (from 0) of the display lines of pmset_lines[:start_index]
DisplayBefore == {p \in 0..(start_index - 1) : display_regex(LineAt(p))}

\* the charge matches of pmset_lines[start_index - 1:], as (timestamp, charge)
RECURSIVE ChargeMatches(_, _)
ChargeMatches(lines, from) ==
    IF from > Len(lines) THEN <<>>
    ELSE (IF charge_regex(lines[from])
          THEN <<(<<lines[from].ts, lines[from].charge>>)>> ELSE <<>>)
         \o ChargeMatches(lines, from + 1)

\* the extraction that leaves out the line at position start_index - 1
ExtractChargeEvents_afterStart == ChargeMatches(pmset_lines, start_index + 1)

\* charge_events: the charge matches of pmset_lines[start_index - 1:]
ExtractChargeEvents == ChargeMatches(pmset_lines, start_index)

\* the latest display line before start_index gives start_display_state;
\* then charge_events is extracted and the walk is set up
FindStartDisplay ==
    /\ pc = "display"
    /\ DisplayBefore # {}
    /\ LET p == CHOOSE q \in DisplayBefore : \A r \in DisplayBefore : r <= q
       IN  /\ start_display_state' = LineAt(p).dstate
           /\ current_display_state' = LineAt(p).dstate
    /\ charge_events' = ExtractChargeEvents
    /\ last_display_switch' = start_timestamp
    /\ total_time_with_display_on' = 0
    /\ total_time_with_display_off' = 0
    /\ total_consumption_with_display_on' = 0
    /\ total_consumption_with_display_off' = 0
    /\ k' = start_index
    /\ pc' = "walk"
    /\ UNCHANGED <<pmset_lines, scanVars, output, exit_status, liveVars,
                   lookupVars>>

\* no display line before start_index: the else branch of the for
NoStartDisplay ==
    /\ pc = "display"
    /\ DisplayBefore = {}
    /\ Exit(<<Printed("stdout", "no_display_state")>>, 1)
    /\ UNCHANGED <<pmset_lines, scanVars, start_display_state, charge_events,
                   walkVars, liveVars, lookupVars>>

\* ---------------------------------------------------------- the forward walk
\* an uncaught exception: traceback on standard error, exit status 1
Raise == Exit(<<Printed("stderr", "traceback")>>, 1)

\* a line that is no display line
WalkNoMatch ==
    /\ pc = "walk"
    /\ k < end_index
    /\ ~display_regex(LineAt(k))
    /\ k' = k + 1
    /\ UNCHANGED <<pc, pmset_lines, scanVars, start_display_state,
                   charge_events, current_display_state, last_display_switch,
                   total_time_with_display_on, total_time_with_display_off,
                   total_consumption_with_display_on,
                   total_consumption_with_display_off,
                   output, exit_status, liveVars, lookupVars>>

\* WalkSameState that moves last_display_switch to the repeated event
WalkSameState_advances ==
    /\ pc = "walk"
    /\ k < end_index
    /\ display_regex(LineAt(k))
    /\ LineAt(k).dstate = current_display_state
    /\ last_display_switch' = LineAt(k).ts
    /\ k' = k + 1
    /\ UNCHANGED <<pc, pmset_lines, scanVars, start_display_state,
                   charge_events, current_display_state,
                   total_time_with_display_on, total_time_with_display_off,
                   total_consumption_with_display_on,
                   total_consumption_with_display_off,
                   output, exit_status, liveVars, lookupVars>>

\* a display line that repeats the current state: continue
WalkSameState ==
    /\ pc = "walk"
    /\ k < end_index
    /\ display_regex(LineAt(k))
    /\ LineAt(k).dstate = current_display_state
    /\ k' = k + 1
    /\ UNCHANGED <<pc, pmset_lines, scanVars, start_display_state,
                   charge_events, current_display_state, last_display_switch,
                   total_time_with_display_on, total_time_with_display_off,
                   total_consumption_with_display_on,
                   total_consumption_with_display_off,
                   output, exit_status, liveVars, lookupVars>>

\* Duration measured from the session start, not from the last switch
Duration_fromStart(new_timestamp, last_switch) == new_timestamp - start_timestamp

\* duration = (new_timestamp - last_display_switch).total_seconds()
Duration(new_timestamp, last_switch) == new_timestamp - last_switch

\* IsReported with ">=": an interval of exactly 300 seconds is printed
IsReported_atLeast(duration) == duration >= PrintThreshold

\* IsReported with a threshold of ten minutes
IsReported_overTenMinutes(duration) == duration > 600

\* Consumption with the two charges exchanged
Consumption_reversed(charge_at_last, charge_at_new) ==
    charge_at_new - charge_at_last

\* Consumption measured from the charge at the session start
Consumption_fromStart(charge_at_last, charge_at_new) ==
    start_charge - charge_at_new

\* consumption = get_closest_event(charge_events, last_display_switch)[1]
\*               - get_closest_event(charge_events, new_timestamp)[1]
Consumption(charge_at_last, charge_at_new) == charge_at_last - charge_at_new

\* the per-interval line is printed: "if duration > 300"
IsReported(duration) == duration > PrintThreshold

\* the label of the interval that ends when new_display_state is entered:
\* "sleep" if current_display_state == "on" else "usage", after the update
IntervalLabel(new_display_state) ==
    IF new_display_state = "on" THEN "sleep" ELSE "usage"

\* AddsToDisplayOff by the state "off" being entered
AddsToDisplayOff_whenOff(new_display_state) == new_display_state = "off"

\* the interval that ends when new_display_state is entered goes to the
\* display-off totals: if current_display_state == "on", after the update
AddsToDisplayOff(new_display_state) == new_display_state = "on"

\* a display line with a new state: the interval since last_display_switch ends
WalkTransition ==
    /\ pc = "walk"
    /\ k < end_index
    /\ display_regex(LineAt(k))
    /\ LineAt(k).dstate # current_display_state
    /\ LET new_display_state == LineAt(k).dstate
           new_timestamp == LineAt(k).ts
           duration == Duration(new_timestamp, last_display_switch)
           at_last == get_closest_event(charge_events, last_display_switch)
           at_new == get_closest_event(charge_events, new_timestamp)
           consumption == Consumption(at_last.event[2], at_new.event[2])
       IN  IF at_last.raised \/ at_new.raised
           THEN /\ Raise
                /\ UNCHANGED walkVars
           ELSE /\ current_display_state' = new_display_state
                /\ output' = output \o at_last.printed \o at_new.printed \o
                      (IF IsReported(duration)
                       THEN <<IntervalLine("interval", last_display_switch,
                                           new_timestamp, consumption, duration,
                                           IntervalLabel(new_display_state))>>
                       ELSE <<>>)
                /\ IF AddsToDisplayOff(new_display_state)
                   THEN /\ total_consumption_with_display_off' =
                              total_consumption_with_display_off + consumption
                        /\ total_time_with_display_off' =
                              total_time_with_display_off + duration
                        /\ UNCHANGED <<total_consumption_with_display_on,
                                       total_time_with_display_on>>
                   ELSE /\ total_consumption_with_display_on' =
                              total_consumption_with_display_on + consumption
                        /\ total_time_with_display_on' =
                              total_time_with_display_on + duration
                        /\ UNCHANGED <<total_consumption_with_display_off,
                                       total_time_with_display_off>>
                /\ last_display_switch' = new_timestamp
                /\ k' = k + 1
                /\ UNCHANGED <<pc, exit_status>>
    /\ UNCHANGED <<pmset_lines, scanVars, start_display_state, charge_events,
                   liveVars, lookupVars>>

\* ------------------------------------------------------- the open-ended tail
\* OnBattery that looks at seen_batt only
OnBattery_seenBatt == seen_batt

\* "if end_index == len(pmset_lines)": still on battery
OnBattery == end_index = Len(pmset_lines)

\* the walk is over and the session ended with a plug-in: no tail
SkipTail ==
    /\ pc = "walk"
    /\ k >= end_index
    /\ ~OnBattery
    /\ pc' = "report"
    /\ UNCHANGED <<pmset_lines, scanVars, start_display_state, charge_events,
                   walkVars, output, exit_status, liveVars, lookupVars>>

\* still on battery; get_current_charge returns the live charge.  The second
\* datetime.now(), which the line printed shows, falls in the same second as
\* the first.
OpenEndedTail ==
    /\ pc = "walk"
    /\ k >= end_index
    /\ OnBattery
    /\ \E t \in NowTimes, c \in LiveCharges :
          LET duration == t - last_display_switch
              printed_now == t
              at_last == get_closest_event(charge_events, last_display_switch)
              consumption == at_last.event[2] - c
          IN  /\ now' = t
              /\ IF at_last.raised
                 THEN /\ Raise
                      /\ UNCHANGED <<live_calls, current_charge,
                                     total_consumption_with_display_on,
                                     total_time_with_display_on>>
                 ELSE /\ live_calls' = live_calls + 1
                      /\ current_charge' = c
                      /\ total_consumption_with_display_on' =
                            total_consumption_with_display_on + consumption
                      /\ total_time_with_display_on' =
                            total_time_with_display_on + duration
                      /\ output' = output \o at_last.printed \o
                            <<IntervalLine("final_interval", last_display_switch,
                                           printed_now, consumption, duration,
                                           "usage")>>
                      /\ pc' = "report"
                      /\ UNCHANGED exit_status
    /\ UNCHANGED <<pmset_lines, scanVars, start_display_state, charge_events,
                   k, current_display_state, last_display_switch,
                   total_time_with_display_off,
                   total_consumption_with_display_off, lookupVars>>

\* still on battery; get_current_charge does not return: ioreg prints no
\* CurrentCapacity line (message, exit status 1), or the subprocess fails
\* and check_output raises.  The duration computed from datetime.now() is
\* never used.
TailLiveQueryFails(printed) ==
    /\ pc = "walk"
    /\ k >= end_index
    /\ OnBattery
    /\ LET at_last == get_closest_event(charge_events, last_display_switch)
       IN  IF at_last.raised
           THEN /\ Raise
                /\ UNCHANGED live_calls
           ELSE /\ live_calls' = live_calls + 1
                /\ Exit(at_last.printed \o <<printed>>, 1)
    /\ UNCHANGED <<pmset_lines, scanVars, start_display_state, charge_events,
                   walkVars, now, current_charge, lookupVars>>

TailNoCapacity == TailLiveQueryFails(Printed("stdout", "no_capacity"))

TailSubprocessError == TailLiveQueryFails(Printed("stderr", "traceback"))

\* ------------------------------------------------------------------ report
Report ==
    /\ pc = "report"
    /\ output' = output \o
         << Printed("stdout", "summary"),
            [Printed("stdout", "unplugged") EXCEPT
                !.from = start_timestamp, !.consumption = start_charge],
            TotalLine("total_usage", total_consumption_with_display_on,
                      total_time_with_display_on),
            TotalLine("total_sleep", total_consumption_with_display_off,
                      total_time_with_display_off),
            Printed("stdout", "statistics"),
            RateLine("rate_usage", total_consumption_with_display_on,
                     total_time_with_display_on),
            RateLine("rate_sleep", total_consumption_with_display_off,
                     total_time_with_display_off) >>
    /\ exit_status' = 0
    /\ pc' = "exit"
    /\ UNCHANGED <<pmset_lines, scanVars, start_display_state, charge_events,
                   walkVars, liveVars, lookupVars>>

\* -------------------------------------------------------------------- Next
Next ==
    \/ MainUsage
    \/ MainRead
    \/ ReadLine
    \/ ProcessLines
    \/ ScanNoMatch
    \/ ScanTrailingAC
    \/ ScanBreak
    \/ ScanBattery
    \/ ScanExhausted
    \/ FindStartDisplay
    \/ NoStartDisplay
    \/ WalkNoMatch
    \/ WalkSameState
    \/ WalkTransition
    \/ SkipTail
    \/ OpenEndedTail
    \/ TailNoCapacity
    \/ TailSubprocessError
    \/ Report

Spec == Init /\ [][Next]_vars

\* --------------------------------------- get_closest_event called on its own
processVars == <<pmset_lines, scanVars, start_display_state, charge_events,
                 walkVars, output, exit_status, liveVars>>

InitLookup ==
    /\ pc = "events"
    /\ pmset_lines = <<>>
    /\ Start

\* one more event of the list, which is sorted ascending by timestamp
AddEvent ==
    /\ pc = "events"
    /\ Len(events) < MaxEvents
    /\ \E t \in LookupTimes, c \in Charges :
          /\ Len(events) > 0 => t >= events[Len(events)][1]
          /\ events' = Append(events, <<t, c>>)
    /\ UNCHANGED <<pc, timestamp, result, processVars>>

\* get_closest_event(events, timestamp)
CallClosest ==
    /\ pc = "events"
    /\ \E t \in LookupTimes :
          /\ timestamp' = t
          /\ result' = get_closest_event(events, t)
    /\ pc' = "returned"
    /\ UNCHANGED <<events, processVars>>

NextLookup == AddEvent \/ CallClosest

SpecLookup == InitLookup /\ [][NextLookup]_vars

\* ================================================================== claims
Abs(x) == IF x < 0 THEN -x ELSE x

\* the timestamps of the events of the stand-alone call
EventTimes == {events[e][1] : e \in 1..Len(events)}
EarlierTimes == {t \in EventTimes : t < timestamp}
LaterTimes == {t \in EventTimes : t > timestamp}
MaxOf(S) == CHOOSE t \in S : \A u \in S : u <= t
MinOf(S) == CHOOSE t \in S : \A u \in S : t <= u

\* the nearest earlier and the nearest later event are equally distant, and
\* no event is at the query
ExactTie ==
    /\ timestamp \notin EventTimes
    /\ EarlierTimes # {} /\ LaterTimes # {}
    /\ timestamp - MaxOf(EarlierTimes) = MinOf(LaterTimes) - timestamp

\* C5: for a non-empty event list sorted ascending by timestamp and any query
\* timestamp, get_closest_event returns an event of the list whose distance
\* to the query is minimal: an event at the query if there is one, the first
\* event for a query before all events, the last for a query after all, and
\* the later event when the nearest earlier and the nearest later event are
\* equally distant.
C5_ClosestIsNearest ==
    (pc = "returned" /\ Len(events) > 0) =>
        /\ ~result.raised
        /\ \E e \in 1..Len(events) : result.event = events[e]
        /\ \A e \in 1..Len(events) :
              Abs(result.event[1] - timestamp) <= Abs(events[e][1] - timestamp)
        /\ timestamp \in EventTimes => result.event[1] = timestamp
        /\ (\A t \in EventTimes : timestamp < t) => result.event = events[1]
        /\ (\A t \in EventTimes : timestamp > t) => result.event = events[Len(events)]
        /\ ExactTie => result.event[1] = MinOf(LaterTimes)

\* an exact tie between two events was looked up, and the later one returned
C5_Witness ==
    /\ pc = "returned"
    /\ ExactTie
    /\ result.event[1] > timestamp

\* C6: whenever the event returned by get_closest_event is more than 600
\* seconds away from the query, the gap diagnostic is printed, wherever the
\* query lies relative to the list.
C6_GapAlwaysReported ==
    (pc = "returned" /\ ~result.raised
        /\ Abs(result.event[1] - timestamp) > GapThreshold)
    => result.printed # <<>>

\* positions (from 0) of the charge lines of the log, by power source
ChargePos == {p \in 0..(Len(pmset_lines) - 1) : charge_regex(LineAt(p))}
BatteryPos == {p \in ChargePos : LineAt(p).ctype # "AC"}
ACPos == {p \in ChargePos : LineAt(p).ctype = "AC"}
DisplayPos == {p \in 0..(Len(pmset_lines) - 1) : display_regex(LineAt(p))}

\* a line of this kind was printed
Said(kind) == \E o \in 1..Len(output) : output[o].kind = kind

\* process_lines has been entered
InProcess == pc \in {"scan", "display", "walk", "report"}
                \/ (pc = "exit" /\ ~Said("usage"))

\* the backward scan ended with the break
BoundaryFound == pc \in {"display", "walk", "report"}
                    \/ (pc = "exit" /\ ~Said("usage") /\ ~Said("no_unplug"))

\* the AC lines that have a battery line after them
PlugOuts == {p \in ACPos : \E q \in BatteryPos : q > p}

\* the last maximal run of consecutive battery charge lines
LastBatteryRun ==
    {p \in BatteryPos : \A q \in ACPos : q > p => q > MaxOf(BatteryPos)}

\* C1: when boundary detection succeeds, the session start is the battery
\* charge line that comes next, among charge lines, after the latest AC line
\* with a battery line after it; that is the earliest line of the last
\* maximal run of consecutive battery charge lines, and start_index is the
\* position just after it.
C1_StartIsFirstBatteryAfterLastPlugOut ==
    BoundaryFound =>
        /\ PlugOuts # {}
        /\ LET unplug == MinOf({q \in ChargePos : q > MaxOf(PlugOuts)})
           IN  /\ unplug \in BatteryPos
               /\ unplug = MinOf(LastBatteryRun)
               /\ start_index = unplug + 1
               /\ start_timestamp = LineAt(unplug).ts
               /\ start_charge = LineAt(unplug).charge

\* the boundary of the second of two sessions was found, the session having
\* several battery lines
C1_Witness ==
    /\ BoundaryFound
    /\ Cardinality(PlugOuts) >= 2
    /\ Cardinality(LastBatteryRun) >= 2

\* C2: a log that begins mid-session (battery charge lines, no AC line
\* before the first of them) has its boundary found, at the earliest battery
\* line of the log; the "could not determine last unplug" failure needs a
\* scan that never found a battery line.
C2_MidSessionLogHasBoundary ==
    /\ (pc \in {"display", "walk", "report", "exit"} /\ ~Said("usage")
           /\ BatteryPos # {} /\ PlugOuts = {})
       => (BoundaryFound /\ start_index = MinOf(BatteryPos) + 1)
    /\ Said("no_unplug") => BatteryPos = {}

\* C3: a log without any battery charge line ends process_lines with exit
\* status 1 and the "could not determine when the PC was last unplugged"
\* message, and nothing else is printed: no interval line, no summary, no
\* statistics.
C3_NoBatteryLineFails ==
    (InProcess /\ BatteryPos = {}) =>
        /\ pc \in {"scan", "exit"}
        /\ pc = "scan" => (output = <<>> /\ exit_status = NoValue)
        /\ pc = "exit" => /\ exit_status = 1
                          /\ output = <<Printed("stdout", "no_unplug")>>

\* a log with AC and display lines and no battery line has failed
C3_Witness ==
    /\ pc = "exit"
    /\ exit_status = 1
    /\ BatteryPos = {}
    /\ ACPos # {}
    /\ DisplayPos # {}

\* process_lines ran to its end
Finished == pc = "exit" /\ exit_status = 0

\* no AC charge line follows the last battery charge line
NoPlugInAfterSession == \A q \in ACPos : \E b \in BatteryPos : b > q

IsWalkInterval(o) == o.kind = "interval"
WalkIntervals == SelectSeq(output, IsWalkInterval)

\* C4: when the session has no later plug-in, total display-on time plus
\* total display-off time at the end of the run, with the unprinted short
\* intervals and the final open-ended interval, is the current time minus
\* start_timestamp.
C4_TotalsCoverWindow ==
    ((pc = "report" \/ Finished) /\ NoPlugInAfterSession) =>
        total_time_with_display_on + total_time_with_display_off
            = now - start_timestamp

\* a run without plug-in ended after a short unprinted interval and a
\* printed one
C4_Witness ==
    /\ Finished
    /\ NoPlugInAfterSession
    /\ Len(WalkIntervals) = 1
    /\ WalkIntervals[1].from > start_timestamp
    /\ total_time_with_display_off > 0

\* the step that leaves the forward walk after its last line
LeavesWalk == pc = "walk" /\ k >= end_index /\ pc' # "walk"

\* C7: the open-ended tail runs exactly when end_index is the line count,
\* that is when no AC charge line follows the last battery charge line; it
\* adds the interval from last_display_switch to the current time to the
\* display-on totals whatever the display state, with consumption
\* charge-at(last_display_switch) minus the live charge, and prints its line
\* whatever the duration.  get_current_charge is called at most once, only
\* then and only after the walk; after a plug-in it is never called and no
\* interval is added.
C7_TailOnlyWhenOnBattery ==
    [][ /\ (live_calls' # live_calls) =>
              /\ LeavesWalk
              /\ live_calls = 0 /\ live_calls' = 1
              /\ NoPlugInAfterSession
        /\ LeavesWalk =>
              /\ NoPlugInAfterSession <=> end_index = Len(pmset_lines)
              /\ NoPlugInAfterSession <=> live_calls' = 1
        /\ (LeavesWalk /\ pc' = "report" /\ NoPlugInAfterSession) =>
              /\ total_time_with_display_on' = total_time_with_display_on
                    + (now' - last_display_switch)
              /\ total_consumption_with_display_on' =
                    total_consumption_with_display_on
                    + (get_closest_event(charge_events, last_display_switch).event[2]
                       - current_charge')
              /\ UNCHANGED <<total_time_with_display_off,
                             total_consumption_with_display_off>>
              /\ Len(output') > Len(output)
              /\ output'[Len(output')].kind = "final_interval"
              /\ output'[Len(output')].from = last_display_switch
        /\ (LeavesWalk /\ ~NoPlugInAfterSession) =>
              /\ pc' = "report"
              /\ output' = output
              /\ UNCHANGED <<total_time_with_display_on,
                             total_time_with_display_off,
                             total_consumption_with_display_on,
                             total_consumption_with_display_off>>
      ]_vars

\* the tail ran with the display tracked as off and an interval that is not
\* longer than the threshold
C7_Witness ==
    /\ pc = "report"
    /\ live_calls = 1
    /\ current_display_state = "off"
    /\ now - last_display_switch <= PrintThreshold
    /\ Said("final_interval")

\* the step of the forward walk that processes a display-state transition
TransitionStep ==
    /\ pc = "walk" /\ pc' = "walk"
    /\ k' = k + 1
    /\ display_regex(LineAt(k))
    /\ LineAt(k).dstate # current_display_state

\* the lines printed by the step
NewOutput == SubSeq(output', Len(output) + 1, Len(output'))

\* C8: each transition of the forward walk adds the duration and the
\* consumption of the interval just ended to one bucket, chosen by the state
\* entered: the display-off totals when it is "on", the display-on totals
\* otherwise; the other bucket is unchanged, and the label printed ("sleep"
\* when the state entered is "on", else "usage") names that bucket.
C8_BucketByStateEntered ==
    [][ TransitionStep =>
          LET new_state == LineAt(k).dstate
              duration == LineAt(k).ts - last_display_switch
              consumption ==
                  get_closest_event(charge_events, last_display_switch).event[2]
                  - get_closest_event(charge_events, LineAt(k).ts).event[2]
          IN  /\ IF new_state = "on"
                 THEN /\ total_time_with_display_off' =
                            total_time_with_display_off + duration
                      /\ total_consumption_with_display_off' =
                            total_consumption_with_display_off + consumption
                      /\ UNCHANGED <<total_time_with_display_on,
                                     total_consumption_with_display_on>>
                 ELSE /\ total_time_with_display_on' =
                            total_time_with_display_on + duration
                      /\ total_consumption_with_display_on' =
                            total_consumption_with_display_on + consumption
                      /\ UNCHANGED <<total_time_with_display_off,
                                     total_consumption_with_display_off>>
              /\ \A o \in 1..Len(NewOutput) :
                    NewOutput[o].kind = "interval" =>
                       /\ NewOutput[o].label =
                             (IF new_state = "on" THEN "sleep" ELSE "usage")
                       /\ NewOutput[o].label = "sleep" <=>
                             total_time_with_display_off'
                                # total_time_with_display_off
      ]_vars

\* intervals of both labels were printed and both buckets were added to
C8_Witness ==
    /\ pc = "walk"
    /\ total_time_with_display_on > 0
    /\ total_time_with_display_off > 0
    /\ \E o \in 1..Len(output) :
          output[o].kind = "interval" /\ output[o].label = "sleep"
    /\ \E o \in 1..Len(output) :
          output[o].kind = "interval" /\ output[o].label = "usage"

\* C9: a transition of the forward walk prints its line if and only if the
\* duration of the interval is greater than 300 seconds (exactly 300 is not
\* printed); the duration and the consumption go into the totals either way.
C9_PrintedIffOver300 ==
    [][ TransitionStep =>
          LET duration == LineAt(k).ts - last_display_switch
              consumption ==
                  get_closest_event(charge_events, last_display_switch).event[2]
                  - get_closest_event(charge_events, LineAt(k).ts).event[2]
          IN  /\ (\E o \in 1..Len(NewOutput) : NewOutput[o].kind = "interval")
                    <=> duration > 300
              /\ total_time_with_display_on' + total_time_with_display_off'
                    = total_time_with_display_on + total_time_with_display_off
                      + duration
              /\ total_consumption_with_display_on'
                    + total_consumption_with_display_off'
                    = total_consumption_with_display_on
                      + total_consumption_with_display_off + consumption
      ]_vars

\* an interval of exactly 300 seconds went into the totals without a line
C9_Witness ==
    /\ pc = "walk"
    /\ last_display_switch - start_timestamp = PrintThreshold
    /\ total_time_with_display_on + total_time_with_display_off = PrintThreshold
    /\ current_display_state # start_display_state
    /\ ~Said("interval")

\* the end-to-end log was processed to the end at 12:10:00 with 60% live
EndToEndRun ==
    /\ pmset_lines = EndToEndLog
    /\ Finished
    /\ now = 7800
    /\ current_charge = 60

UnpluggedLine ==
    [Printed("stdout", "unplugged") EXCEPT !.from = 0, !.consumption = 80]

\* C10 as stated: in the end-to-end run the 10:00-10:10 interval is not
\* printed, the walk reports one interval (10:10-12:10, 2 h 0 min, 18%,
\* sleep), active usage totals 600 s and 2%, and the summary shows the
\* unplug at 10:00:00 with 80%.
C10_EndToEndOneInterval ==
    EndToEndRun =>
        /\ WalkIntervals =
              <<IntervalLine("interval", 600, 7800, 18, 7200, "sleep")>>
        /\ total_time_with_display_on = 600
        /\ total_consumption_with_display_on = 2
        /\ \E o \in 1..Len(output) : output[o] = UnpluggedLine

\* C10, amended: in the end-to-end run the 10:00-10:10 interval of 600 s is
\* longer than the threshold and is printed (0 h 10 min, 2%, usage); the walk
\* reports two intervals, that one and 10:10-12:10 (2 h 0 min, 18%, sleep);
\* the line of the final interval of length zero follows; active usage
\* totals 600 s and 2%, sleep 7200 s and 18%, and the summary shows the
\* unplug at 10:00:00 with 80%.
C10_EndToEndTwoIntervals ==
    EndToEndRun =>
        /\ WalkIntervals =
              << IntervalLine("interval", 0, 600, 2, 600, "usage"),
                 IntervalLine("interval", 600, 7800, 18, 7200, "sleep") >>
        /\ SubSeq(output, 1, 3) = WalkIntervals \o
              <<IntervalLine("final_interval", 7800, 7800, 0, 0, "usage")>>
        /\ total_time_with_display_on = 600
        /\ total_consumption_with_display_on = 2
        /\ total_time_with_display_off = 7200
        /\ total_consumption_with_display_off = 18
        /\ output[5] = UnpluggedLine
        /\ output[6] = TotalLine("total_usage", 2, 600)
        /\ output[7] = TotalLine("total_sleep", 18, 7200)

C10_Witness == EndToEndRun /\ Len(output) = 10

\* the charges of charge_events never increase along the list
ChargesNeverIncrease ==
    \A e \in 1..(Len(charge_events) - 1) :
        charge_events[e + 1][2] <= charge_events[e][2]

TotalConsumption ==
    total_consumption_with_display_on + total_consumption_with_display_off

\* C11: when the charges of the extracted charge events never increase over
\* time, the consumption of every interval of the forward walk is not
\* negative; in every case the totals grow by charge-at(last_display_switch)
\* minus charge-at(new timestamp) as it is, negative or not.
C11_ConsumptionNotNegative ==
    [][ TransitionStep =>
          LET consumption ==
                  get_closest_event(charge_events, last_display_switch).event[2]
                  - get_closest_event(charge_events, LineAt(k).ts).event[2]
          IN  /\ TotalConsumption' - TotalConsumption = consumption
              /\ ChargesNeverIncrease => TotalConsumption' - TotalConsumption >= 0
      ]_vars

\* charges that fall over time, and an interval that consumed some
C11_Witness ==
    /\ pc = "walk"
    /\ ChargesNeverIncrease
    /\ Len(charge_events) >= 2
    /\ TotalConsumption > 0

\* a charge that rises over time made the consumption added negative
C11_NegativeConsumptionAdded ==
    /\ pc = "walk"
    /\ ~ChargesNeverIncrease
    /\ TotalConsumption < 0

\* C12: get_closest_event, called with an empty event list and any query
\* timestamp, completes without raising an error.
C12_EmptyListTolerated ==
    (pc = "returned" /\ Len(events) = 0) => ~result.raised

\* the messages of the fatal conditions, and what the report consists of
FatalKinds == {"no_unplug", "no_display_state", "no_capacity", "usage"}
ReportKinds == {"interval", "final_interval", "summary", "unplugged",
                "total_usage", "total_sleep", "statistics",
                "rate_usage", "rate_sleep"}

\* C13: the message of every fatal condition (last unplug or display state
\* at unplug not determinable, battery capacity unreadable, usage error) is
\* written to standard error; only the gap warning and the report are
\* written to standard output.
C13_FatalMessagesOnStderr ==
    \A o \in 1..Len(output) :
        /\ output[o].kind \in FatalKinds => output[o].stream = "stderr"
        /\ output[o].stream = "stdout" =>
              output[o].kind \in ReportKinds \cup {"gap"}

\* the display lines before position start_index
DisplayPosBeforeStart == {p \in DisplayPos : p < start_index}

\* the scan for the display state at the unplug is over
PastDisplayScan == BoundaryFound /\ pc # "display"

\* C14: after boundary detection, start_display_state is the state of the
\* latest display line before position start_index; if there is none, the
\* run ends with exit status 1 and the "could not determine the state of the
\* display" message and nothing else is printed, display lines after the
\* session start notwithstanding.
C14_StartDisplayState ==
    PastDisplayScan =>
        IF DisplayPosBeforeStart = {}
        THEN /\ pc = "exit"
             /\ exit_status = 1
             /\ output = <<Printed("stdout", "no_display_state")>>
        ELSE /\ start_display_state = LineAt(MaxOf(DisplayPosBeforeStart)).dstate
             /\ ~Said("no_display_state")

\* the run failed for want of a display state although display lines follow
\* the session start
C14_Witness ==
    /\ pc = "exit"
    /\ Said("no_display_state")
    /\ \E p \in DisplayPos : p >= start_index

\* the display state was taken from the session-start line itself
C14_StateFromStartLine ==
    /\ pc = "walk"
    /\ MaxOf(DisplayPosBeforeStart) = start_index - 1

\* the line of this kind in the output
TheLine(kind) == output[CHOOSE o \in 1..Len(output) : output[o].kind = kind]

\* the fraction num / den is consumption / (time / 3600), or 0 for no time
IsRateOf(line, consumption, time) ==
    /\ line.den # 0
    /\ time > 0 => line.num * time = consumption * 3600 * line.den
    /\ time = 0 => line.num = 0

\* C15: the battery-loss rate reported for a state is its total consumption
\* divided by (its total duration in seconds / 3600) when that duration is
\* positive and 0.0 when it is zero; the report never divides by zero.
C15_RateGuarded ==
    Finished =>
        /\ IsRateOf(TheLine("rate_usage"), total_consumption_with_display_on,
                    total_time_with_display_on)
        /\ IsRateOf(TheLine("rate_sleep"), total_consumption_with_display_off,
                    total_time_with_display_off)

\* a report with no display-on time at all and a positive display-off time
C15_Witness ==
    /\ Finished
    /\ total_time_with_display_on = 0
    /\ total_time_with_display_off > 0
    /\ TheLine("rate_sleep").num # 0

\* the AC charge lines after the last battery charge line
TrailingAC == {q \in ACPos : \A b \in BatteryPos : b < q}

\* C16: when boundary detection succeeds, end_index is the position of the
\* earliest AC charge line after the last battery charge line, or the line
\* count if there is none; start_index <= end_index <= line count, and no
\* charge line of the walked range [start_index, end_index) is an AC line.
C16_EndIndexAtFirstTrailingAC ==
    BoundaryFound =>
        /\ end_index = IF TrailingAC = {} THEN Len(pmset_lines)
                       ELSE MinOf(TrailingAC)
        /\ start_index <= end_index
        /\ end_index <= Len(pmset_lines)
        /\ \A p \in start_index..(end_index - 1) : LineAt(p).ctype # "AC"

\* the boundary was found in a log that ends with several AC lines
C16_Witness ==
    /\ BoundaryFound
    /\ Cardinality(TrailingAC) >= 2
    /\ end_index > start_index

\* the walk is at a line that is no display line, or that repeats the
\* current display state
AtLineWithoutTransition ==
    /\ pc = "walk"
    /\ k < end_index
    /\ \/ ~display_regex(LineAt(k))
       \/ LineAt(k).dstate = current_display_state

\* C17: in the forward walk, a line that is no display line and a display
\* line whose state is current_display_state leave current_display_state,
\* last_display_switch and the four totals as they are and print nothing;
\* last_display_switch does not move to a repeated same-state event.
C17_NoTransitionNoChange ==
    [][ AtLineWithoutTransition =>
          /\ pc' = "walk"
          /\ k' = k + 1
          /\ UNCHANGED <<current_display_state, last_display_switch,
                         total_time_with_display_on,
                         total_time_with_display_off,
                         total_consumption_with_display_on,
                         total_consumption_with_display_off, output>>
      ]_vars

\* the walk has passed a display line that repeated the current state at a
\* later time than last_display_switch
C17_Witness ==
    /\ pc = "walk"
    /\ k > start_index
    /\ display_regex(LineAt(k - 1))
    /\ LineAt(k - 1).dstate = current_display_state
    /\ LineAt(k - 1).ts > last_display_switch

\* C18: whatever the display states are ("on", "off" or any other word, the
\* start_display_state included), an interval of the forward walk is added
\* to the display-on totals if and only if the state in effect during it,
\* current_display_state before the transition, was "on", and to the
\* display-off totals otherwise.
C18_BucketByStateDuringInterval ==
    [][ TransitionStep =>
          LET duration == LineAt(k).ts - last_display_switch
              consumption ==
                  get_closest_event(charge_events, last_display_switch).event[2]
                  - get_closest_event(charge_events, LineAt(k).ts).event[2]
          IN  IF current_display_state = "on"
              THEN /\ total_time_with_display_on' =
                         total_time_with_display_on + duration
                   /\ total_consumption_with_display_on' =
                         total_consumption_with_display_on + consumption
                   /\ UNCHANGED <<total_time_with_display_off,
                                  total_consumption_with_display_off>>
              ELSE /\ total_time_with_display_off' =
                         total_time_with_display_off + duration
                   /\ total_consumption_with_display_off' =
                         total_consumption_with_display_off + consumption
                   /\ UNCHANGED <<total_time_with_display_on,
                                  total_consumption_with_display_on>>
      ]_vars

C20_StartEventIsFirst ==
    (pc \in {"walk", "report"} \/ Finished) =>
        /\ Len(charge_events) >= 1
        /\ charge_events[1] = <<start_timestamp, start_charge>>
        /\ LET at_start == get_closest_event(charge_events, start_timestamp)
           IN  /\ ~at_start.raised
               /\ at_start.event = <<start_timestamp, start_charge>>

\* the tail step is reached with later charge events after the start event,
\* one of them with another charge
C20_Witness ==
    /\ pc = "walk"
    /\ k >= end_index
    /\ end_index = Len(pmset_lines)
    /\ Len(charge_events) >= 2
    /\ \E n \in 2..Len(charge_events) : charge_events[n][2] # start_charge

====
